---------------------------- MODULE Spec2Model ----------------------------
(***************************************************************************)
(* Model of handler.go of TcpRoute2: the protocol pre-detector CheckPre,   *)
(* the stream peek/rewrite step Pre, and the duplex forwarding engine      *)
(* forwardConn with its two _forwardConn copy tasks.                       *)
(*                                                                         *)
(* Strings are sequences of one-character strings, so that the parsing     *)
(* and joining done by the code is computed character by character.        *)
(***************************************************************************)
EXTENDS Integers, Sequences, FiniteSets, TLC

VARIABLES
    \* ---- CheckPre ----
    network,        \* argument of CheckPre
    address,        \* argument of CheckPre and of Pre
    httpPorts,      \* the package variable preHttpPorts
    httpsPorts,     \* the package variable preHttpsPorts
    cpPc,           \* "call" before CheckPre ran, "done" after
    cpResult,       \* value returned by CheckPre
    \* ---- Pre ----
    preProtoco,     \* argument of Pre
    ppc,            \* position inside Pre / of its caller
    conn,           \* local variable conn of Pre: "raw" or "wrapped"
    tcpPort,        \* local variable tcpPort
    httpRawHost,    \* local variable httpRawHost
    sniff,          \* what the sniffer will do on this connection
    vhostBuf,       \* bytes the sniffer consumed and kept in the wrapper
    rawPos,         \* number of bytes consumed from the raw connection
    calls,          \* sniffer methods called by Pre, in order
    ret,            \* values returned by Pre
    readBack,       \* bytes the caller has read from the returned handle
    \* ---- forwardConn ----
    fpc,            \* position of forwardConn
    pc,             \* position of each _forwardConn task
    errChan,        \* the buffered channel
    result,         \* value returned by forwardConn
    count,          \* forwardCount: count.send and count.recv
    buf,            \* buf of each task (the chunk read last)
    wbuf,           \* wbuf of each task (the part still to write)
    pending,        \* the event a task is about to send on errChan
    rd,             \* bytes each task has read from its source
    written,        \* bytes accepted by each task's destination
    deadline,       \* deadline of each connection
    closed,         \* whether the caller has closed each connection
    now,            \* the clock
    posted,         \* history: events in the order they were sent
    lastRead,       \* history: time of the last successful read of the
                    \* client-to-upstream task, -1 before it and once
                    \* the task has returned
    renewed,        \* history: time of the last SetDeadline per connection
    iterAt          \* history: time at which a task last started a loop
                    \* iteration (both SetDeadline calls made), -1 before

cpVars == <<network, httpPorts, httpsPorts, cpPc, cpResult>>
preVars == <<preProtoco, ppc, conn, tcpPort, httpRawHost, sniff, vhostBuf, rawPos, calls, ret, readBack>>
fwdVars == <<fpc, pc, errChan, result, count, buf, wbuf, pending, rd, written, deadline, closed, now, posted, lastRead, renewed, iterAt>>
vars == <<address, cpVars, preVars, fwdVars>>

----------------------------------------------------------------------------
(* Constants of handler.go *)

preProtocolUnknown == 0
preProtocolHttp == 1
preProtocolHttps == 2

DefaultHttpPorts == <<80>>
DefaultHttpsPorts == <<443>>

----------------------------------------------------------------------------
(* Strings *)

Digits == <<"0", "1", "2", "3", "4", "5", "6", "7", "8", "9">>
HexLetters == {"a", "b", "c", "d", "e", "f"}

IsDigit(c) == \E i \in 1..10 : Digits[i] = c
DigitVal(c) == (CHOOSE i \in 1..10 : Digits[i] = c) - 1
IsHex(c) == IsDigit(c) \/ c \in HexLetters

Contains(s, c) == \E i \in 1..Len(s) : s[i] = c
\* 1-based index of the first c in s, 0 when there is none
IndexByte(s, c) == IF Contains(s, c) THEN CHOOSE i \in 1..Len(s) : s[i] = c /\ \A j \in 1..(i-1) : s[j] # c ELSE 0
\* 1-based index of the last c in s, 0 when there is none
LastIndex(s, c) == IF Contains(s, c) THEN CHOOSE i \in 1..Len(s) : s[i] = c /\ \A j \in (i+1)..Len(s) : s[j] # c ELSE 0
From(s, i) == SubSeq(s, i, Len(s))

HasPrefix(s, p) == Len(s) >= Len(p) /\ SubSeq(s, 1, Len(p)) = p

SplitFail == [host |-> <<>>, port |-> <<>>, err |-> TRUE]
SplitOk(h, p) == [host |-> h, port |-> p, err |-> FALSE]

\* net.SplitHostPort: the port starts after the last colon; a host in
\* brackets must end right before that colon; no other colon or bracket.
SplitHostPort(hp) ==
    LET i == LastIndex(hp, ":") IN
    IF i = 0 THEN SplitFail
    ELSE IF hp[1] = "["
    THEN LET end == IndexByte(hp, "]") IN
         IF end = 0 THEN SplitFail
         ELSE IF end + 1 # i THEN SplitFail
         ELSE IF Contains(From(hp, 2), "[") \/ Contains(From(hp, end + 1), "]") THEN SplitFail
         ELSE SplitOk(SubSeq(hp, 2, end - 1), From(hp, i + 1))
    ELSE IF Contains(SubSeq(hp, 1, i - 1), ":") THEN SplitFail
         ELSE IF Contains(hp, "[") \/ Contains(hp, "]") THEN SplitFail
         ELSE SplitOk(SubSeq(hp, 1, i - 1), From(hp, i + 1))

\* net.JoinHostPort: a host with a colon is taken for an IPv6 literal
JoinHostPort(h, p) == IF Contains(h, ":") THEN <<"[">> \o h \o <<"]", ":">> \o p ELSE h \o <<":">> \o p

RECURSIVE DecVal(_)
DecVal(s) == IF s = <<>> THEN 0 ELSE 10 * DecVal(SubSeq(s, 1, Len(s) - 1)) + DigitVal(s[Len(s)])

AllDigits(s) == s # <<>> /\ \A i \in 1..Len(s) : IsDigit(s[i])

AtoiFail == [val |-> 0, err |-> TRUE]
\* strconv.Atoi: an optional sign followed by decimal digits only
Atoi(s) ==
    IF s = <<>> THEN AtoiFail
    ELSE LET signed == s[1] \in {"+", "-"}
             body == IF signed THEN Tail(s) ELSE s
         IN IF ~AllDigits(body) THEN AtoiFail
            ELSE [val |-> IF s[1] = "-" THEN 0 - DecVal(body) ELSE DecVal(body), err |-> FALSE]

\* the fields of s between the separators c
RECURSIVE Fields(_, _)
Fields(s, c) == IF ~Contains(s, c) THEN <<s>> ELSE <<SubSeq(s, 1, IndexByte(s, c) - 1)>> \o Fields(From(s, IndexByte(s, c) + 1), c)

\* one decimal field of a dotted quad: digits, at most 255, no leading zero
IsOctet(f) == AllDigits(f) /\ Len(f) <= 3 /\ DecVal(f) <= 255 /\ (Len(f) > 1 => f[1] # "0")

parseIPv4(s) == LET fs == Fields(s, ".") IN Len(fs) = 4 /\ \A i \in 1..4 : IsOctet(fs[i])

\* number of leading hex digits of s (xtoi)
RECURSIVE HexRun(_)
HexRun(s) == IF s # <<>> /\ IsHex(s[1]) THEN 1 + HexRun(Tail(s)) ELSE 0

\* The loop of parseIPv6: i is the number of address bytes parsed so far,
\* ell tells whether an ellipsis "::" was seen.  A group is 1 to 4 hex
\* digits; a group followed by a dot starts a trailing dotted quad.
V6Final(i, ell) == IF i < 16 THEN ell ELSE ~ell

RECURSIVE V6Loop(_, _, _)
V6Loop(s, i, ell) ==
    IF i >= 16 THEN s = <<>> /\ ~ell
    ELSE LET c == HexRun(s) IN
         IF c = 0 \/ c > 4 THEN FALSE
         ELSE IF c < Len(s) /\ s[c + 1] = "."
         THEN /\ (ell \/ i = 12)
              /\ i + 4 <= 16
              /\ parseIPv4(s)
              /\ V6Final(i + 4, ell)
         ELSE LET s1 == From(s, c + 1)
                  i1 == i + 2
              IN IF s1 = <<>> THEN V6Final(i1, ell)
                 ELSE IF s1[1] # ":" \/ Len(s1) = 1 THEN FALSE
                 ELSE LET s2 == Tail(s1) IN
                      IF s2[1] = ":"
                      THEN IF ell THEN FALSE
                           ELSE IF Len(s2) = 1 THEN i1 < 16
                           ELSE V6Loop(Tail(s2), i1, TRUE)
                      ELSE V6Loop(s2, i1, ell)

parseIPv6(s) ==
    IF Len(s) >= 2 /\ s[1] = ":" /\ s[2] = ":"
    THEN IF Len(s) = 2 THEN TRUE ELSE V6Loop(From(s, 3), 0, TRUE)
    ELSE V6Loop(s, 0, FALSE)

\* net.ParseIP # nil: the first dot or colon decides the family
ParseIP(s) ==
    LET d == IndexByte(s, ".")
        k == IndexByte(s, ":")
    IN IF d = 0 /\ k = 0 THEN FALSE
       ELSE IF k = 0 \/ (d # 0 /\ d < k) THEN parseIPv4(s)
       ELSE parseIPv6(s)

----------------------------------------------------------------------------
(* CheckPre *)

\* in(v, l)
in(v, l) == \E i \in 1..Len(l) : l[i] = v

\* CheckPre answering HTTP for a port of the HTTPS table
CheckPreHttpOnly(net, addr, httpL, httpsL) ==
    IF ~HasPrefix(net, <<"t", "c", "p">>) THEN preProtocolUnknown
    ELSE LET hp == SplitHostPort(addr) IN
         IF hp.err THEN preProtocolUnknown
         ELSE IF ~ParseIP(hp.host) THEN preProtocolUnknown
         ELSE LET portInt == Atoi(hp.port) IN
              IF portInt.err THEN preProtocolUnknown
              ELSE IF in(portInt.val, httpL) THEN preProtocolHttp
              ELSE IF in(portInt.val, httpsL) THEN preProtocolHttp
              ELSE preProtocolUnknown

\* CheckPre without the test that the host is a literal IP
CheckPreAnyHost(net, addr, httpL, httpsL) ==
    IF ~HasPrefix(net, <<"t", "c", "p">>) THEN preProtocolUnknown
    ELSE LET hp == SplitHostPort(addr) IN
         IF hp.err THEN preProtocolUnknown
         ELSE LET portInt == Atoi(hp.port) IN
              IF portInt.err THEN preProtocolUnknown
              ELSE IF in(portInt.val, httpL) THEN preProtocolHttp
              ELSE IF in(portInt.val, httpsL) THEN preProtocolHttps
              ELSE preProtocolUnknown

CheckPre(net, addr, httpL, httpsL) ==
    IF ~HasPrefix(net, <<"t", "c", "p">>) THEN preProtocolUnknown
    ELSE LET hp == SplitHostPort(addr) IN
         IF hp.err THEN preProtocolUnknown
         ELSE IF ~ParseIP(hp.host) THEN preProtocolUnknown
         ELSE LET portInt == Atoi(hp.port) IN
              IF portInt.err THEN preProtocolUnknown
              ELSE IF in(portInt.val, httpL) THEN preProtocolHttp
              ELSE IF in(portInt.val, httpsL) THEN preProtocolHttps
              ELSE preProtocolUnknown

(* Inputs *)

Networks == {<<"t", "c", "p">>, <<"t", "c", "p", "4">>, <<"u", "d", "p">>, <<"t", "c">>, <<>>}
HostIPv4 == <<"1", ".", "2", ".", "3", ".", "4">>
HostIPv6 == <<":", ":", "1">>
HostName == <<"a", ".", "b">>
HostShort == <<"1", ".", "2", ".", "3">>
Hosts == {HostIPv4, HostIPv6, HostName, HostShort, <<"2", "5", "6", ".", "1", ".", "1", ".", "1">>}
Port80 == <<"8", "0">>
Port443 == <<"4", "4", "3">>
Ports == {Port80, Port443, <<"8">>, <<"+", "8", "0">>, <<"x">>, <<>>}
Addresses == {h \o <<":">> \o p : h \in Hosts, p \in Ports} \cup {<<"[">> \o h \o <<"]", ":">> \o p : h \in Hosts, p \in Ports} \cup Hosts
PortTables == {<<DefaultHttpPorts, DefaultHttpsPorts>>, <<<<8>>, <<80>>>>, <<<<>>, <<>>>>, <<<<80, 443>>, <<443>>>>}

(* Values of the variables of an operation that is not running *)

Tasks == {"send", "recv"}
Conns == {"client", "upstream"}

NoDeadline == 0 - 1
\* no event: the nil error
NoEvent == [task |-> "none", op |-> "none", kind |-> "none", cause |-> "none"]

FwdIdle ==
    /\ fpc = "idle" /\ pc = [t \in Tasks |-> "idle"] /\ errChan = <<>> /\ result = NoEvent
    /\ count = [t \in Tasks |-> 0] /\ buf = [t \in Tasks |-> <<>>] /\ wbuf = [t \in Tasks |-> <<>>]
    /\ pending = [t \in Tasks |-> NoEvent] /\ rd = [t \in Tasks |-> <<>>] /\ written = [t \in Tasks |-> <<>>]
    /\ deadline = [c \in Conns |-> NoDeadline] /\ closed = [c \in Conns |-> FALSE] /\ now = 0
    /\ posted = <<>> /\ lastRead = 0 - 1 /\ renewed = [c \in Conns |-> 0 - 1] /\ iterAt = 0 - 1


PreIdle ==
    /\ preProtoco = preProtocolUnknown /\ ppc = "idle" /\ conn = "raw"
    /\ tcpPort = <<>> /\ httpRawHost = <<>> /\ sniff = [err |-> FALSE, host |-> <<>>, take |-> 0]
    /\ vhostBuf = <<>> /\ rawPos = 0 /\ calls = <<>>
    /\ ret = [nConn |-> "none", nAddress |-> <<>>, ok |-> FALSE] /\ readBack = <<>>

CheckPreIdle ==
    /\ network = <<>> /\ httpPorts = DefaultHttpPorts /\ httpsPorts = DefaultHttpsPorts
    /\ cpPc = "idle" /\ cpResult = preProtocolUnknown

InitCheckPre ==
    /\ network \in Networks
    /\ address \in Addresses
    /\ \E t \in PortTables : httpPorts = t[1] /\ httpsPorts = t[2]
    /\ cpPc = "call"
    /\ cpResult = preProtocolUnknown
    /\ PreIdle
    /\ FwdIdle

DoCheckPre ==
    /\ cpPc = "call"
    /\ cpResult' = CheckPre(network, address, httpPorts, httpsPorts)
    /\ cpPc' = "done"
    /\ UNCHANGED <<address, network, httpPorts, httpsPorts, preVars, fwdVars>>

NextCheckPre == DoCheckPre

SpecCheckPre == InitCheckPre /\ [][NextCheckPre]_vars

----------------------------------------------------------------------------
(* forwardConn and _forwardConn *)

\* Bounds of the model
MaxBytes == 2
forwardBufSize == 2
Timeout == 2
MaxTime == 4

\* a channel with one slot less than there are tasks
ChanCapTooSmall == Cardinality(Tasks) - 1

\* errChan := make(chan error, 10)
ChanCap == 10


\* go _forwardConn(sConn, oConn, ..., &count.send)
\* go _forwardConn(oConn, sConn, ..., &count.recv)
sConn(t) == IF t = "send" THEN "client" ELSE "upstream"
oConn(t) == IF t = "send" THEN "upstream" ELSE "client"

\* The bytes a peer sends are numbered by their position in the stream
Stream == [i \in 1..MaxBytes |-> i]

Min(a, b) == IF a < b THEN a ELSE b

\* a deadline that is set and reached makes the blocked operation fail
Expired(c) == deadline[c] # NoDeadline /\ now >= deadline[c]

\* a deadline of twice the timeout
NewDeadlineDouble(t) == t + 2 * Timeout

\* time.Now().Add(timeout)
NewDeadline(t) == t + Timeout

\* the value sent on errChan after a failed Read: io.EOF itself, or a
\* wrapped read error.  kind is the value the receiver sees; task, op and
\* cause record which task sent it, after which call, and why the call failed
ReadEvent(t, cause) == [task |-> t, op |-> "read", kind |-> IF cause = "EOF" THEN "EOF" ELSE "ReadErr", cause |-> cause]

\* the value sent on errChan after a failed Write: io.EOF itself, or a
\* wrapped write error
WriteEvent(t, cause) == [task |-> t, op |-> "write", kind |-> IF cause = "EOF" THEN "EOF" ELSE "WriteErr", cause |-> cause]

\* atomic.AddUint64(count, uint64(len(buf))); a session of at most MaxBytes
\* bytes per direction stays far below the 64-bit wrap-around
CountAfter(c, b) == c + Len(b)

\* a receive that takes the newest event of the channel
RecvNewest(ch) == ch[Len(ch)]

\* <-errChan
RecvValue(ch) == Head(ch)

\* forwardConn has been called and has made the channel
InitForward ==
    /\ fpc = "go1" /\ pc = [t \in Tasks |-> "idle"] /\ errChan = <<>> /\ result = NoEvent
    /\ count = [t \in Tasks |-> 0] /\ buf = [t \in Tasks |-> <<>>] /\ wbuf = [t \in Tasks |-> <<>>]
    /\ pending = [t \in Tasks |-> NoEvent] /\ rd = [t \in Tasks |-> <<>>] /\ written = [t \in Tasks |-> <<>>]
    /\ deadline = [c \in Conns |-> NoDeadline] /\ closed = [c \in Conns |-> FALSE] /\ now = 0
    /\ posted = <<>> /\ lastRead = 0 - 1 /\ renewed = [c \in Conns |-> 0 - 1] /\ iterAt = 0 - 1
    /\ address = <<>> /\ CheckPreIdle /\ PreIdle

otherVars == <<address, cpVars, preVars>>

\* go _forwardConn(sConn, oConn, timeout, errChan, &count.send)
Go1 ==
    /\ fpc = "go1"
    /\ fpc' = "go2"
    /\ pc' = [pc EXCEPT !["send"] = "setS"]
    /\ UNCHANGED <<errChan, result, count, buf, wbuf, pending, rd, written, deadline, closed, now, posted, lastRead, renewed, iterAt, otherVars>>

\* go _forwardConn(oConn, sConn, timeout, errChan, &count.recv)
Go2 ==
    /\ fpc = "go2"
    /\ fpc' = "wait"
    /\ pc' = [pc EXCEPT !["recv"] = "setS"]
    /\ UNCHANGED <<errChan, result, count, buf, wbuf, pending, rd, written, deadline, closed, now, posted, lastRead, renewed, iterAt, otherVars>>

\* return <-errChan
Return ==
    /\ fpc = "wait"
    /\ errChan # <<>>
    /\ result' = RecvValue(errChan)
    /\ errChan' = Tail(errChan)
    /\ fpc' = "returned"
    /\ UNCHANGED <<pc, count, buf, wbuf, pending, rd, written, deadline, closed, now, posted, lastRead, renewed, iterAt, otherVars>>

\* the caller of forwardConn closes a connection once forwardConn returned
CallerClose(c) ==
    /\ fpc = "returned"
    /\ ~closed[c]
    /\ closed' = [closed EXCEPT ![c] = TRUE]
    /\ UNCHANGED <<fpc, pc, errChan, result, count, buf, wbuf, pending, rd, written, deadline, now, posted, lastRead, renewed, iterAt, otherVars>>

\* a task that renews the deadline of its source only
RenewedConnsSource(t) == {sConn(t)}

\* a task that renews the deadline of its destination only
RenewedConnsDest(t) == {oConn(t)}

\* sConn.SetDeadline(...); oConn.SetDeadline(...): the connections whose
\* deadline a task renews at the start of a loop iteration
RenewedConns(t) == {sConn(t), oConn(t)}

\* SetDeadline on a closed connection fails and the code ignores the error
SetDeadline(c) ==
    IF closed[c] THEN UNCHANGED <<deadline, renewed>>
    ELSE /\ deadline' = [deadline EXCEPT ![c] = NewDeadline(now)]
         /\ renewed' = [renewed EXCEPT ![c] = now]

\* sConn.SetDeadline(time.Now().Add(timeout))
SetS(t) ==
    /\ pc[t] = "setS"
    /\ IF sConn(t) \in RenewedConns(t) THEN SetDeadline(sConn(t)) ELSE UNCHANGED <<deadline, renewed>>
    /\ pc' = [pc EXCEPT ![t] = "setO"]
    /\ UNCHANGED <<fpc, errChan, result, count, buf, wbuf, pending, rd, written, closed, now, posted, lastRead, iterAt, otherVars>>

\* oConn.SetDeadline(time.Now().Add(timeout))
SetO(t) ==
    /\ pc[t] = "setO"
    /\ IF oConn(t) \in RenewedConns(t) THEN SetDeadline(oConn(t)) ELSE UNCHANGED <<deadline, renewed>>
    /\ iterAt' = now
    /\ pc' = [pc EXCEPT ![t] = "read"]
    /\ UNCHANGED <<fpc, errChan, result, count, buf, wbuf, pending, rd, written, closed, now, posted, lastRead, otherVars>>

\* sConn.Read returns n > 0 bytes: buf = buf[:n]; wbuf := buf
ReadOk(t, n) ==
    /\ pc[t] = "read"
    /\ ~closed[sConn(t)]
    /\ ~Expired(sConn(t))
    /\ n \in 1..Min(forwardBufSize, MaxBytes - Len(rd[t]))
    /\ buf' = [buf EXCEPT ![t] = SubSeq(Stream, Len(rd[t]) + 1, Len(rd[t]) + n)]
    /\ wbuf' = [wbuf EXCEPT ![t] = buf'[t]]
    /\ rd' = [rd EXCEPT ![t] = rd[t] \o buf'[t]]
    /\ lastRead' = IF t = "send" THEN now ELSE lastRead
    /\ pc' = [pc EXCEPT ![t] = "write"]
    /\ UNCHANGED <<fpc, errChan, result, count, pending, written, deadline, closed, now, posted, renewed, iterAt, otherVars>>

\* the errors a Read or Write can fail with in the current state
Causes(c) ==
    IF closed[c] THEN {"closed"}
    ELSE IF Expired(c) THEN {"timeout", "EOF", "other"}
    ELSE {"EOF", "other"}

\* a task that starts its next iteration when the connection was closed
AfterFailRetryClosed(cause) == IF cause = "closed" THEN "setS" ELSE "post"

\* if err != nil { errChan <- ...; return }: after any failed Read or Write
\* the task goes on to send its event and to return
AfterFail(cause) == "post"

\* sConn.Read fails: the task chooses its terminal event.  From here on
\* the task only sends the event and returns; its buffers are dead.
ReadFail(t, cause) ==
    /\ pc[t] = "read"
    /\ cause \in Causes(sConn(t))
    /\ pending' = [pending EXCEPT ![t] = ReadEvent(t, cause)]
    /\ buf' = [buf EXCEPT ![t] = <<>>]
    /\ wbuf' = [wbuf EXCEPT ![t] = <<>>]
    /\ pc' = [pc EXCEPT ![t] = AfterFail(cause)]
    /\ UNCHANGED <<fpc, errChan, result, count, rd, written, deadline, closed, now, posted, lastRead, renewed, iterAt, otherVars>>

\* a remainder that starts one byte too late
RemainingSkip(w, n) == From(w, n + 2)

\* wbuf = wbuf[n:]
Remaining(w, n) == From(w, n + 1)

\* oConn.Write(wbuf) accepts n > 0 bytes without error: wbuf = wbuf[n:]
WriteOk(t, n) ==
    /\ pc[t] = "write"
    /\ wbuf[t] # <<>>
    /\ ~closed[oConn(t)]
    /\ ~Expired(oConn(t))
    /\ n \in 1..Len(wbuf[t])
    /\ written' = [written EXCEPT ![t] = written[t] \o SubSeq(wbuf[t], 1, n)]
    /\ wbuf' = [wbuf EXCEPT ![t] = Remaining(wbuf[t], n)]
    /\ UNCHANGED <<fpc, pc, errChan, result, count, buf, pending, rd, deadline, closed, now, posted, lastRead, renewed, iterAt, otherVars>>

\* oConn.Write(wbuf) fails after accepting n bytes, fewer than len(wbuf).
\* From here on the task only sends the event and returns; its buffers
\* are dead.
WriteFail(t, n, cause) ==
    /\ pc[t] = "write"
    /\ wbuf[t] # <<>>
    /\ cause \in Causes(oConn(t))
    /\ n \in 0..(Len(wbuf[t]) - 1)
    /\ closed[oConn(t)] => n = 0
    /\ written' = [written EXCEPT ![t] = written[t] \o SubSeq(wbuf[t], 1, n)]
    /\ pending' = [pending EXCEPT ![t] = WriteEvent(t, cause)]
    /\ buf' = [buf EXCEPT ![t] = <<>>]
    /\ wbuf' = [wbuf EXCEPT ![t] = <<>>]
    /\ pc' = [pc EXCEPT ![t] = AfterFail(cause)]
    /\ UNCHANGED <<fpc, errChan, result, count, rd, deadline, closed, now, posted, lastRead, renewed, iterAt, otherVars>>

\* both tasks given &count.send
CounterOfSend(t) == "send"

\* the two counters exchanged
CounterOfSwapped(t) == IF t = "send" THEN "recv" ELSE "send"

\* the counter a task was given: &count.send for the task that reads the
\* client, &count.recv for the task that reads upstream
CounterOf(t) == t

\* len(wbuf) == 0: break; atomic.AddUint64(count, uint64(len(buf)))
AddCount(t) ==
    /\ pc[t] = "write"
    /\ wbuf[t] = <<>>
    /\ count' = [count EXCEPT ![CounterOf(t)] = CountAfter(count[CounterOf(t)], buf[t])]
    /\ pc' = [pc EXCEPT ![t] = "setS"]
    /\ UNCHANGED <<fpc, errChan, result, buf, wbuf, pending, rd, written, deadline, closed, now, posted, lastRead, renewed, iterAt, otherVars>>

\* a task that closes the connection it writes to when it returns
ClosedAfterExitDest(t, cl) == [cl EXCEPT ![oConn(t)] = TRUE]

\* the connections after a task has returned: _forwardConn has no Close and
\* no defer, so they are as they were
ClosedAfterExit(t, cl) == cl

\* errChan <- err; return.  The send blocks while the channel is full.
\* The history of the task's reads ends with the task.
Post(t) ==
    /\ pc[t] = "post"
    /\ Len(errChan) < ChanCap
    /\ errChan' = Append(errChan, pending[t])
    /\ posted' = Append(posted, pending[t])
    /\ pending' = [pending EXCEPT ![t] = NoEvent]
    /\ pc' = [pc EXCEPT ![t] = "done"]
    /\ closed' = ClosedAfterExit(t, closed)
    /\ lastRead' = IF t = "send" THEN 0 - 1 ELSE lastRead
    /\ UNCHANGED <<fpc, result, count, buf, wbuf, rd, written, deadline, now, renewed, iterAt, otherVars>>

\* the connection a task is blocked on, in Read or in Write
BlockedOn(t) ==
    IF pc[t] = "read" THEN {sConn(t)}
    ELSE IF pc[t] = "write" /\ wbuf[t] # <<>> THEN {oConn(t)}
    ELSE {}

\* Time passes while some task is in Read or Write, the other one is too
\* or has exited, and forwardConn is in its receive or has returned; the
\* clock is not followed once both tasks have exited.  The statements between
\* two blocking calls take no time.  A blocked Read or Write fails when
\* the deadline of its connection is reached, and at once when its
\* connection is closed, so time does not pass a deadline somebody is
\* blocked on, nor while somebody is blocked on a closed connection.
Tick ==
    /\ now < MaxTime
    /\ fpc \in {"wait", "returned"}
    /\ \A t \in Tasks : pc[t] = "done" \/ BlockedOn(t) # {}
    /\ \E t \in Tasks : BlockedOn(t) # {}
    /\ \A t \in Tasks : \A c \in BlockedOn(t) : ~closed[c] /\ ~Expired(c)
    /\ now' = now + 1
    /\ UNCHANGED <<fpc, pc, errChan, result, count, buf, wbuf, pending, rd, written, deadline, closed, posted, lastRead, renewed, iterAt, otherVars>>

TaskStep(t) ==
    \/ SetS(t)
    \/ SetO(t)
    \/ \E n \in 1..forwardBufSize : ReadOk(t, n)
    \/ \E cause \in {"EOF", "timeout", "other", "closed"} : ReadFail(t, cause)
    \/ \E n \in 1..forwardBufSize : WriteOk(t, n)
    \/ \E n \in 0..forwardBufSize : \E cause \in {"EOF", "timeout", "other", "closed"} : WriteFail(t, n, cause)
    \/ AddCount(t)
    \/ Post(t)

NextForward ==
    \/ Go1
    \/ Go2
    \/ Return
    \/ \E c \in Conns : CallerClose(c)
    \/ \E t \in Tasks : TaskStep(t)
    \/ Tick

SpecForward == InitForward /\ [][NextForward]_vars

\* the steps of a task that wait for no peer: the statements between two
\* blocking calls, the send on a channel that has room, and a Read or Write
\* on a closed connection, which fails at once
RunnableStep(t) ==
    \/ SetS(t)
    \/ SetO(t)
    \/ AddCount(t)
    \/ Post(t)
    \/ ReadFail(t, "closed")
    \/ WriteFail(t, 0, "closed")

\* the scheduler runs every goroutine that can run
SpecForwardFair == SpecForward /\ \A t \in Tasks : WF_vars(RunnableStep(t))

----------------------------------------------------------------------------
(* Pre *)

\* Bound of the model: length of the byte stream the client sends
PreStreamLen == 3

\* The bytes of the connection are numbered by their position
PreStream == [i \in 1..PreStreamLen |-> i]

(* Inputs *)

PreAddresses == {HostIPv4 \o <<":">> \o Port80, HostIPv4 \o <<":">> \o Port443, <<"[">> \o HostIPv6 \o <<"]", ":">> \o Port80, HostIPv4 \o <<":">>, HostIPv4, HostIPv6 \o <<":">> \o Port80}
PreProtocols == {preProtocolUnknown, preProtocolHttp, preProtocolHttps, 3}
\* hostnames a sniffer can extract from a Host header or from SNI
RawHosts == {<<>>, HostName, HostName \o <<":">> \o <<"8">>, <<":", "8">>, HostIPv6, <<"[">> \o HostIPv6 \o <<"]", ":">> \o <<"8">>}
\* what the sniffer does: it consumes take bytes, then fails or has a host
Sniffs == {[err |-> TRUE, host |-> <<>>, take |-> k] : k \in 0..PreStreamLen} \cup {[err |-> FALSE, host |-> h, take |-> k] : h \in RawHosts, k \in 0..PreStreamLen}

InitPre ==
    /\ address \in PreAddresses
    /\ preProtoco \in PreProtocols
    /\ sniff \in Sniffs
    /\ ppc = "call" /\ conn = "raw" /\ tcpPort = <<>> /\ httpRawHost = <<>>
    /\ vhostBuf = <<>> /\ rawPos = 0 /\ calls = <<>>
    /\ ret = [nConn |-> "none", nAddress |-> <<>>, ok |-> FALSE] /\ readBack = <<>>
    /\ CheckPreIdle
    /\ FwdIdle

\* the bytes a sniffer that consumed k bytes keeps in the wrapper
SnifferBuf(k) == SubSeq(PreStream, 1, k)

\* the bytes still to come from handle h: a wrapper yields its buffered
\* bytes first, and then what the raw connection still has
HandleRest(h, vb, rp) == (IF h = "wrapped" THEN vb ELSE <<>>) \o SubSeq(PreStream, rp + 1, PreStreamLen)

\* the name of the sniffer of a protocol: vhost.HTTP or vhost.TLS
SnifferOf(proto) == IF proto = preProtocolHttp THEN "HTTP" ELSE "TLS"

\* return conn, address, false (unsplittable address, other protocol,
\* empty hostname)
PreFail(cn, addr) == [nConn |-> cn, nAddress |-> addr, ok |-> FALSE]

\* the sniffer failed and the handle passed in is returned
PreSnifferFailRaw(c, cn, addr) == [nConn |-> cn, nAddress |-> addr, ok |-> FALSE]

\* return c, address, false (the sniffer failed): c is the wrapper
PreSnifferFail(c, cn, addr) == [nConn |-> c, nAddress |-> addr, ok |-> FALSE]

\* the empty hostname is joined with the port all the same
PreEmptyHostJoined(cn, addr, raw, port) == [nConn |-> cn, nAddress |-> JoinHostPort(raw, port), ok |-> FALSE]

\* if httpRawHost == "" { return conn, address, false }
PreEmptyHost(cn, addr, raw, port) == [nConn |-> cn, nAddress |-> addr, ok |-> FALSE]

\* the address returned with ok = true: the port found inside the
\* extracted hostname is dropped when the hostname splits
PreJoinAddress(raw, port) ==
    LET t == SplitHostPort(raw) IN
    IF t.err THEN JoinHostPort(raw, port) ELSE JoinHostPort(t.host, port)

\* Free is not called
FreeCallsNone(cs) == cs

\* c.Free()
FreeCalls(cs) == Append(cs, "Free")

\* _, tTcpPort, err := net.SplitHostPort(address)
PreSplit ==
    /\ ppc = "call"
    /\ LET r == SplitHostPort(address) IN
       IF r.err
       THEN /\ ret' = PreFail(conn, address)
            /\ ppc' = "returned"
            /\ UNCHANGED tcpPort
       ELSE /\ tcpPort' = r.port
            /\ ppc' = "switch"
            /\ UNCHANGED ret
    /\ UNCHANGED <<address, preProtoco, conn, httpRawHost, sniff, vhostBuf, rawPos, calls, readBack, cpVars, fwdVars>>

\* a switch whose last case takes every other category too
HasSnifferAlways(p) == TRUE

\* case preProtocolHttp, case preProtocolHttps; anything else is the default
HasSniffer(p) == p \in {preProtocolHttp, preProtocolHttps}

\* switch preProtoco: c, err := vhost.HTTP(conn) or vhost.TLS(conn)
PreSwitch ==
    /\ ppc = "switch"
    /\ IF HasSniffer(preProtoco)
       THEN /\ vhostBuf' = SnifferBuf(sniff.take)
            /\ rawPos' = sniff.take
            /\ calls' = Append(calls, SnifferOf(preProtoco))
            /\ IF sniff.err
               THEN /\ ret' = PreSnifferFail("wrapped", conn, address)
                    /\ ppc' = "returned"
                    /\ UNCHANGED conn
               ELSE /\ conn' = "wrapped"
                    /\ ppc' = "host"
                    /\ UNCHANGED ret
       ELSE /\ ret' = PreFail(conn, address)
            /\ ppc' = "returned"
            /\ UNCHANGED <<vhostBuf, rawPos, calls, conn>>
    /\ UNCHANGED <<address, preProtoco, tcpPort, httpRawHost, sniff, readBack, cpVars, fwdVars>>

\* httpRawHost = c.Host()
PreHost ==
    /\ ppc = "host"
    /\ httpRawHost' = sniff.host
    /\ calls' = Append(calls, "Host")
    /\ ppc' = "free"
    /\ UNCHANGED <<address, preProtoco, conn, tcpPort, sniff, vhostBuf, rawPos, ret, readBack, cpVars, fwdVars>>

\* c.Free()
PreFree ==
    /\ ppc = "free"
    /\ calls' = FreeCalls(calls)
    /\ ppc' = "join"
    /\ UNCHANGED <<address, preProtoco, conn, tcpPort, httpRawHost, sniff, vhostBuf, rawPos, ret, readBack, cpVars, fwdVars>>

\* the empty-hostname test and the two returns with ok = true
PreJoin ==
    /\ ppc = "join"
    /\ ret' = IF httpRawHost = <<>>
              THEN PreEmptyHost(conn, address, httpRawHost, tcpPort)
              ELSE [nConn |-> conn, nAddress |-> PreJoinAddress(httpRawHost, tcpPort), ok |-> TRUE]
    /\ ppc' = "returned"
    /\ UNCHANGED <<address, preProtoco, conn, tcpPort, httpRawHost, sniff, vhostBuf, rawPos, calls, readBack, cpVars, fwdVars>>

\* the caller reads one byte from the handle Pre returned
CallerRead ==
    /\ ppc = "returned"
    /\ HandleRest(ret.nConn, vhostBuf, rawPos) # <<>>
    /\ readBack' = Append(readBack, Head(HandleRest(ret.nConn, vhostBuf, rawPos)))
    /\ IF ret.nConn = "wrapped" /\ vhostBuf # <<>>
       THEN vhostBuf' = Tail(vhostBuf) /\ UNCHANGED rawPos
       ELSE rawPos' = rawPos + 1 /\ UNCHANGED vhostBuf
    /\ UNCHANGED <<address, preProtoco, ppc, conn, tcpPort, httpRawHost, sniff, calls, ret, cpVars, fwdVars>>

NextPre ==
    \/ PreSplit
    \/ PreSwitch
    \/ PreHost
    \/ PreFree
    \/ PreJoin
    \/ CallerRead

SpecPre == InitPre /\ [][NextPre]_vars

----------------------------------------------------------------------------
(* Properties of forwardConn *)

\* number of events task t has sent on errChan
PostedBy(t) == Cardinality({i \in 1..Len(posted) : posted[i].task = t})

\* C1: in every interleaving of the two copy tasks forwardConn returns
\* exactly one terminal event, each task sends exactly one event before
\* it exits, errChan never holds more events than its capacity, and a
\* task that is about to send never finds errChan full.
C1_OneEventEach ==
    /\ Len(errChan) <= ChanCap
    /\ \A t \in Tasks : pc[t] = "post" => Len(errChan) < ChanCap
    /\ \A t \in Tasks : PostedBy(t) = (IF pc[t] = "done" THEN 1 ELSE 0)
    /\ Len(posted) = Len(errChan) + (IF fpc = "returned" THEN 1 ELSE 0)
    /\ (fpc = "returned") = (result # NoEvent)

\* both directions failed while forwardConn was still waiting, forwardConn
\* returned one event and the other one stays in the channel
C1_Witness ==
    /\ fpc = "returned"
    /\ \A t \in Tasks : pc[t] = "done"
    /\ Len(errChan) = 1
    /\ Len(posted) = 2

\* C2: the value forwardConn returns is the event that was sent first;
\* the event of the other direction, whenever it is sent, is never the
\* result and does not change it.
C2_FirstEventWins == fpc = "returned" => result = posted[1]

\* the other direction has sent a different event and the result is
\* still the first one
C2_Witness ==
    /\ fpc = "returned"
    /\ Len(posted) = 2
    /\ posted[2] # posted[1]
    /\ result = posted[1]
    /\ result.task = "recv"

\* C3 (as claimed): once the task of a direction has terminated, its
\* counter equals the number of bytes written to the destination of that
\* direction, also when a write error followed a partial write.
C3_CounterEqualsWritten == \A t \in Tasks : pc[t] = "done" => count[t] = Len(written[t])

\* C4 (as claimed): the client-to-upstream task that has read bytes from
\* a client that is silent since is not blocked in its read later than
\* Timeout after its last successful read.
C4_TimeoutFromLastRead ==
    (pc["send"] = "read" /\ lastRead >= 0 /\ ~closed["client"]) => now <= lastRead + Timeout

\* C4 (amended): the client-to-upstream task is not blocked in its read
\* later than Timeout after the last renewal of the deadline of the client
\* connection (by either task, at the start of a loop iteration); that
\* renewal is not earlier than the last successful read of the task.
C4_TimeoutFromLastRenewal ==
    (pc["send"] = "read" /\ ~closed["client"]) =>
        /\ renewed["client"] >= 0
        /\ renewed["client"] >= lastRead
        /\ deadline["client"] = renewed["client"] + Timeout
        /\ now <= renewed["client"] + Timeout

\* the client-to-upstream task has read bytes and then got a timeout from
\* its read, at the deadline, later than Timeout after its last read
C4_Witness ==
    /\ pc["send"] = "post"
    /\ pending["send"] = ReadEvent("send", "timeout")
    /\ lastRead >= 0
    /\ now = renewed["client"] + Timeout
    /\ now > lastRead + Timeout

----------------------------------------------------------------------------
(* Properties of Pre *)

\* C5: whatever the outcome of Pre, the bytes read from the handle Pre
\* returned, followed by the bytes that handle still yields, are the
\* stream of the connection from its first byte: nothing the sniffer
\* consumed is lost, duplicated or reordered.
C5_NoByteLost == ppc = "returned" => readBack \o HandleRest(ret.nConn, vhostBuf, rawPos) = PreStream

\* the sniffer consumed bytes and failed, and the caller has read the
\* whole stream back from the returned handle
C5_Witness ==
    /\ ppc = "returned"
    /\ sniff.err
    /\ sniff.take > 0
    /\ calls # <<>>
    /\ readBack = PreStream

\* C6 (as claimed): when Pre returns ok = true the returned address has
\* the port of the input address and a non-empty host, which is the
\* extracted hostname without its embedded port.
C6_HostAndPort ==
    (ppc = "returned" /\ ret.ok) =>
        LET a == SplitHostPort(ret.nAddress)
            h == SplitHostPort(sniff.host)
        IN /\ ~a.err
           /\ a.port = SplitHostPort(address).port
           /\ a.host = (IF h.err THEN sniff.host ELSE h.host)
           /\ a.host # <<>>

\* the inputs on which Pre fails: the two addresses of PreAddresses that
\* do not split (no port, or an IPv6 host without brackets), a category
\* other than HTTP and HTTPS, a sniffer error, an empty hostname
PreFailure ==
    \/ address \in {HostIPv4, HostIPv6 \o <<":">> \o Port80}
    \/ preProtoco \notin {preProtocolHttp, preProtocolHttps}
    \/ sniff.err
    \/ sniff.host = <<>>

\* C7: on every failure of Pre (sniffer error, empty hostname, address
\* that does not split, other category) Pre returns ok = false, and with
\* ok = false it returns the input address unchanged.
C7_FailureKeepsAddress ==
    ppc = "returned" =>
        /\ PreFailure => ~ret.ok
        /\ ~ret.ok => ret.nAddress = address

\* the sniffer succeeded with an empty hostname and Pre returned
C7_Witness ==
    /\ ppc = "returned"
    /\ calls = <<"HTTP", "Host", "Free">>
    /\ sniff.host = <<>>
    /\ ~ret.ok
    /\ ret.nAddress = address

\* a sniffer has wrapped the connection
Sniffed == \E i \in 1..Len(calls) : calls[i] \in {"HTTP", "TLS"}
FreeCount == Cardinality({i \in 1..Len(calls) : calls[i] = "Free"})

\* C10 (as claimed): on every path of Pre on which a sniffer has wrapped
\* the connection, also when the sniffer reports an error, Free has been
\* called exactly once when Pre returns.
C10_FreeOnEveryPath == (ppc = "returned" /\ Sniffed) => FreeCount = 1

\* C10 (amended): when Pre returns after a sniffer wrapped the connection
\* without error, Host and then Free have been called, once each, and the
\* wrapper is returned; when the sniffer reported an error the wrapper is
\* returned and neither Host nor Free has been called.
C10_FreeAfterHost ==
    (ppc = "returned" /\ Sniffed) =>
        /\ ret.nConn = "wrapped"
        /\ calls = (IF sniff.err THEN <<SnifferOf(preProtoco)>> ELSE <<SnifferOf(preProtoco), "Host", "Free">>)

\* the TLS sniffer succeeded and Pre returned the rewritten address
C10_Witness ==
    /\ ppc = "returned"
    /\ calls = <<"TLS", "Host", "Free">>
    /\ ret.ok
    /\ ret.nConn = "wrapped"

----------------------------------------------------------------------------
(* Properties of CheckPre *)

\* The inputs by the way they are built
TcpKinds == {<<"t", "c", "p">>, <<"t", "c", "p", "4">>}
IPHosts == {HostIPv4, HostIPv6}
\* the number a port string stands for, -1 when it is not a number
PortNumber(p) ==
    IF p \in {Port80, <<"+", "8", "0">>} THEN 80
    ELSE IF p = Port443 THEN 443
    ELSE IF p = <<"8">> THEN 8
    ELSE 0 - 1
\* the addresses with host h and port p that split into h and p
Joined(h, p) == (IF Contains(h, ":") THEN {} ELSE {h \o <<":">> \o p}) \cup {<<"[">> \o h \o <<"]", ":">> \o p}
DefaultTables == httpPorts = DefaultHttpPorts /\ httpsPorts = DefaultHttpsPorts
ByPort(p) ==
    IF PortNumber(p) = 80 THEN preProtocolHttp
    ELSE IF PortNumber(p) = 443 THEN preProtocolHttps
    ELSE preProtocolUnknown

\* C8 (as claimed): with the default port tables, for every address whose
\* host is a literal IP, CheckPre returns HTTP for port 80, HTTPS for port
\* 443 and Unknown for any other port.
C8_ByPortAnyNetwork ==
    (cpPc = "done" /\ DefaultTables) =>
        \A h \in IPHosts, p \in Ports : address \in Joined(h, p) => cpResult = ByPort(p)

\* C8 (amended): with the default port tables and a network kind that
\* starts with "tcp", for every address whose host is a literal IP,
\* CheckPre returns HTTP for port 80, HTTPS for port 443 and Unknown for
\* any other port.
C8_ByPortOnTcp ==
    (cpPc = "done" /\ DefaultTables /\ network \in TcpKinds) =>
        \A h \in IPHosts, p \in Ports : address \in Joined(h, p) => cpResult = ByPort(p)

\* CheckPre answered HTTPS for a literal IPv6 address with port 443
C8_Witness ==
    /\ cpPc = "done"
    /\ DefaultTables
    /\ network = <<"t", "c", "p", "4">>
    /\ address = <<"[">> \o HostIPv6 \o <<"]", ":">> \o Port443
    /\ cpResult = preProtocolHttps

\* the network is a TCP kind, the address splits, its host is a literal
\* IP and its port is a number
Eligible(n) ==
    /\ network \in TcpKinds
    /\ \E h \in IPHosts, p \in Ports : address \in Joined(h, p) /\ PortNumber(p) = n /\ n >= 0

\* C9: CheckPre returns Unknown, whatever the port and the port tables,
\* when the network is not a TCP kind, or the address does not split, or
\* its host is not a literal IP, or its port is not a number; an answer
\* other than Unknown implies all four and a port in the table of the
\* answer.
C9_UnknownUnlessEligible ==
    cpPc = "done" =>
        /\ (~\E n \in {8, 80, 443} : Eligible(n)) => cpResult = preProtocolUnknown
        /\ cpResult = preProtocolHttp => \E n \in {8, 80, 443} : Eligible(n) /\ in(n, httpPorts)
        /\ cpResult = preProtocolHttps => \E n \in {8, 80, 443} : Eligible(n) /\ in(n, httpsPorts)

\* the address a.b:80 on tcp with the default tables is Unknown
C9_Witness ==
    /\ cpPc = "done"
    /\ DefaultTables
    /\ network = <<"t", "c", "p">>
    /\ address = HostName \o <<":">> \o Port80
    /\ cpResult = preProtocolUnknown


----------------------------------------------------------------------------
(* forwardConn: the connections stay open *)

\* a step of forwardConn or of one of its tasks: every statement moves the
\* position of forwardConn or of a task, or shortens a write buffer
EngineStep == fpc' # fpc \/ pc' # pc \/ wbuf' # wbuf

\* C11: forwardConn and its two tasks never close a connection: both
\* connections are open until forwardConn has returned, and no step of
\* forwardConn or of a task, on any path, changes which connections are
\* closed; whatever is closed was closed by the caller after the return.
C11_EngineNeverCloses ==
    /\ [](fpc # "returned" => \A c \in Conns : ~closed[c])
    /\ [][EngineStep => closed' = closed]_vars

\* forwardConn has returned and both tasks have exited, one of them after a
\* timeout, and both connections are still open
C11_Witness ==
    /\ fpc = "returned"
    /\ \A t \in Tasks : pc[t] = "done"
    /\ \E i \in 1..Len(posted) : posted[i].cause = "timeout"
    /\ \A c \in Conns : ~closed[c]

----------------------------------------------------------------------------
(* forwardConn: no task outlives the connections *)

\* C12: once the caller has closed both connections after forwardConn
\* returned, the task that is still running fails its next Read or Write,
\* sends its own event without blocking and returns: eventually both tasks
\* have exited and each has sent its event.
C12_NoTaskLeak ==
    (\A c \in Conns : closed[c]) ~> (\A t \in Tasks : pc[t] = "done" /\ PostedBy(t) = 1)

\* both connections are closed, both tasks have exited, and the second
\* event is the failure of an operation on a closed connection
C12_Witness ==
    /\ \A c \in Conns : closed[c]
    /\ \A t \in Tasks : pc[t] = "done"
    /\ Len(posted) = Cardinality(Tasks)
    /\ posted[Len(posted)].cause = "closed"

----------------------------------------------------------------------------
(* _forwardConn: the bytes written are the bytes read *)

IsPrefix(a, b) == Len(a) <= Len(b) /\ SubSeq(b, 1, Len(a)) = a

\* C13: in each direction the bytes written to the destination are always
\* a prefix of the bytes read from the source, in order and without
\* duplication; while a chunk is being written the bytes still to write are
\* exactly the rest of what was read, and the task reads again only when
\* everything read has been written.
C13_WrittenIsPrefixOfRead ==
    \A t \in Tasks :
        /\ IsPrefix(written[t], rd[t])
        /\ IsPrefix(rd[t], Stream)
        /\ pc[t] = "write" => written[t] \o wbuf[t] = rd[t]
        /\ pc[t] \in {"setS", "setO", "read"} => written[t] = rd[t]

\* a chunk of which a Write accepted a part: the rest is still to write
C13_Witness ==
    /\ pc["send"] = "write"
    /\ wbuf["send"] # <<>>
    /\ Len(wbuf["send"]) < Len(buf["send"])
    /\ written["send"] \o wbuf["send"] = Stream

----------------------------------------------------------------------------
(* _forwardConn: which event a failure is reported as *)

\* C14: a task sends the clean end-of-stream event only when a Read on its
\* source returned end-of-stream; every other failed Read and every failed
\* Write, also one that failed with an end-of-stream error, is sent as a
\* forwarding error that differs from it; forwardConn never returns nil.
C14_EofOnlyFromRead ==
    /\ \A i \in 1..Len(posted) :
           posted[i].kind = "EOF" <=> (posted[i].op = "read" /\ posted[i].cause = "EOF")
    /\ fpc = "returned" => result.kind \in {"EOF", "ReadErr", "WriteErr"}

----------------------------------------------------------------------------
(* _forwardConn: when the deadlines are renewed *)

\* task t enters its Read: both SetDeadline calls of the iteration are made
EntersRead(t) == pc[t] = "setO" /\ pc'[t] = "read"

\* a Write of task t accepted some bytes without error
WriteAccepted(t) == pc[t] = "write" /\ pc'[t] = "write" /\ wbuf'[t] # wbuf[t]

\* both connections, unless closed, have the deadline now + Timeout
BothRenewed == \A c \in Conns : ~closed'[c] => deadline'[c] = NewDeadline(now')

\* C15 as stated: the deadline of both connections is renewed to
\* now + Timeout before every Read and also after every Write that accepted
\* bytes, a partial one included.
C15_RenewedAfterEveryWrite ==
    [][\A t \in Tasks : (EntersRead(t) \/ WriteAccepted(t)) => BothRenewed]_vars

\* C15 amended: the deadline of both connections is renewed to
\* now + Timeout at the start of every loop iteration, that is before every
\* Read, and a Write that accepted bytes leaves the deadlines as they are:
\* the writes of one chunk all run under the deadlines set before its Read
\* or set since by the other task.
C15_RenewedBeforeReadOnly ==
    [][\A t \in Tasks :
          /\ EntersRead(t) => BothRenewed
          /\ WriteAccepted(t) => deadline' = deadline]_vars

\* a chunk of which a part is written and whose rest is cut off by the
\* deadline that was set before the chunk was read
C15_Witness ==
    /\ pc["send"] = "write"
    /\ wbuf["send"] # <<>>
    /\ Len(wbuf["send"]) < Len(buf["send"])
    /\ ~closed["upstream"]
    /\ Expired("upstream")
    /\ deadline["upstream"] = NewDeadline(iterAt)

----------------------------------------------------------------------------
(* _forwardConn: what the two tasks share *)

\* a step of task t: every statement of a task moves its position or
\* shortens its write buffer
StepOf(t) == pc'[t] # pc[t] \/ wbuf'[t] # wbuf[t]

\* the state of task u that no other task touches
OwnState(u) == <<pc[u], buf[u], wbuf[u], pending[u], rd[u], written[u], count[u]>>

\* a step of t leaves the state of u, and which connections are closed, alone
LeavesOwnState(t, u) == StepOf(t) => (OwnState(u)' = OwnState(u) /\ closed' = closed)

\* C16 as stated: the two tasks interact only through the channel and the
\* counters; a step of one task changes no other state the other task
\* depends on, in particular not the deadline of a connection the other
\* task is blocked on.
C16_OnlyChannelAndCounters ==
    [][\A t, u \in Tasks : t # u =>
          /\ LeavesOwnState(t, u)
          /\ StepOf(t) => \A c \in BlockedOn(u) : deadline'[c] = deadline[c]]_vars

\* C16 amended: the two tasks share the channel and the deadlines of the
\* two connections.  A step of one task leaves the position, buffers,
\* bytes and counter of the other task alone, but it can change the
\* deadline of any connection, also of one the other task is blocked on,
\* and then it sets it to now + Timeout.
C16_ShareChannelAndDeadlines ==
    [][\A t, u \in Tasks : t # u =>
          /\ LeavesOwnState(t, u)
          /\ StepOf(t) => \A c \in Conns :
                 deadline'[c] # deadline[c] => (c \in RenewedConns(t) /\ deadline'[c] = NewDeadline(now))]_vars

\* the upstream-to-client task is still in its first Read, entered at
\* time 0, after the deadline it set then: the other task has renewed the
\* deadline of the upstream connection
C16_Witness ==
    /\ pc["recv"] = "read"
    /\ rd["recv"] = <<>>
    /\ ~closed["upstream"]
    /\ now >= NewDeadline(0)
    /\ deadline["upstream"] > now

----------------------------------------------------------------------------
(* _forwardConn: the timeout is an idle timeout of the session *)

\* C17: the timeout bounds the idle time of the session, not its length: a
\* task blocked in a Read on an open connection does not get a deadline
\* expiry while less than Timeout has passed since some task of the session
\* last started a loop iteration, however long the session has lasted.
C17_IdleTimeoutOfSession ==
    \A t \in Tasks :
        (pc[t] = "read" /\ ~closed[sConn(t)] /\ iterAt >= 0 /\ now < NewDeadline(iterAt))
            => ("timeout" \notin Causes(sConn(t)) /\ deadline[sConn(t)] >= NewDeadline(iterAt))

\* the session has lasted longer than Timeout and the client-to-upstream
\* task is blocked in a Read that has not expired, a loop iteration having
\* started less than Timeout ago
C17_Witness ==
    /\ pc["send"] = "read"
    /\ ~closed["client"]
    /\ now > NewDeadline(0)
    /\ now < NewDeadline(iterAt)
    /\ ~Expired("client")

----------------------------------------------------------------------------
(* _forwardConn: the counters *)

\* task t adds to its counter when the chunk it read is written completely
Adds(t) == pc[t] = "write" /\ wbuf[t] = <<>> /\ pc'[t] = "setS"

\* C18: each counter is written by its own task only, and only by adding
\* the length of a chunk that has been written completely: a counter never
\* decreases, never exceeds the number of bytes written to the destination
\* of its direction, and no longer changes once its task has chosen its
\* terminal event, whether or not forwardConn has returned.
C18_CounterOfOneTask ==
    /\ [](\A t \in Tasks : count[t] <= Len(written[t]))
    /\ [][\A t \in Tasks :
            /\ count'[t] >= count[t]
            /\ count'[t] # count[t] => (Adds(t) /\ count'[t] = count[t] + Len(buf[t]))
            /\ pc[t] \in {"post", "done"} => count'[t] = count[t]]_vars

\* forwardConn has returned with the event of the upstream-to-client task,
\* and the client-to-upstream task, having written a whole chunk, is about
\* to add its length to count.send
C18_Witness ==
    /\ fpc = "returned"
    /\ result.task = "recv"
    /\ pc["send"] = "write"
    /\ wbuf["send"] = <<>>
    /\ count["send"] < Len(written["send"])

----------------------------------------------------------------------------
(* Pre: nothing is touched when detection does not apply *)

\* the address has no host and port, or the category is neither HTTP nor HTTPS
NotApplicable ==
    \/ SplitHostPort(address).err
    \/ preProtoco \notin {preProtocolHttp, preProtocolHttps}

\* C19: when Pre is called with an address that cannot be split into host
\* and port, or with a category that is neither HTTP nor HTTPS, it calls no
\* sniffer, reads no byte from the connection (the only bytes taken from it
\* are those the caller read afterwards), and returns the handle it was given.
C19_NoSniffWhenNotApplicable ==
    (ppc = "returned" /\ NotApplicable) =>
        /\ calls = <<>>
        /\ vhostBuf = <<>>
        /\ rawPos = Len(readBack)
        /\ conn = "raw"
        /\ ret.nConn = "raw"

\* Pre was called for HTTP with an address without a port and has returned
\* the handle it was given; the caller has read the whole stream from it
C19_Witness ==
    /\ ppc = "returned"
    /\ preProtoco = preProtocolHttp
    /\ SplitHostPort(address).err
    /\ ret.nConn = "raw"
    /\ calls = <<>>
    /\ readBack = PreStream

====
